---- MODULE Spec2Model ----
(***************************************************************************)
(* Arkham AI frontend: the App shell (page, userConfig, eventHistory), the  *)
(* DashboardPage controller (initial load, disruption run, 10 s polling)    *)
(* perplexityService.getPerplexityAnalysis and the RouteMap's port         *)
(* coordinate lookup.                                                       *)
(*                                                                         *)
(* Risk scores are held in hundredths: 0.78 in the source is 78 here, so    *)
(* [0,1] is 0..100.  A missing / falsy number of a backend reply is 0, the  *)
(* value JavaScript's || treats as absent.                                  *)
(*                                                                         *)
(* One action is the code that runs between two awaits of an async          *)
(* function: the awaited call settles (with an outcome chosen by \E) and    *)
(* the function runs on to its next await.  React applies the state         *)
(* updates of such a stretch together, so the stretch is atomic.  An async  *)
(* function reads the state it closed over when it was created, not the     *)
(* current state: that snapshot is the "closure" field of its record.       *)
(*                                                                         *)
(* The polling interval is a handle (0: none): the effect's cleanup and    *)
(* re-run replace it by another handle; a tick is one firing of the         *)
(* interval in place.                                                       *)
(*                                                                         *)
(* Left out: currentDisruptionEvent, lastUpdateTime, the timestamps of the  *)
(* events, the theme, and the two catch blocks no exception can reach       *)
(* (DashboardPage.tsx 230-250, 579-587).                                    *)
(***************************************************************************)
EXTENDS Integers, Sequences, FiniteSets, TLC

-----------------------------------------------------------------------------
(* Bounds of the model *)

\* calls of getPortCoordinates per session
MaxLookups == 3

\* dashboard mounts per session
MaxMounts == 2

\* poll ticks one dashboard instance starts
MaxTicks == 2

-----------------------------------------------------------------------------
(* constants.ts.  A port name is the sequence of its words, the comma a   *)
(* word of its own, so that split(',') and includes() can be computed.    *)

PRIMARY_ROUTE ==
    [id |-> "TW-LA-DIRECT", stops |-> <<>>, timeDeltaDays |-> 0]

ALTERNATIVE_ROUTES ==
    << [id |-> "TW-VN-LA", stops |-> << <<"Port", "of", "Ho", "Chi", "Minh", "City", ",", "Vietnam">> >>, timeDeltaDays |-> 1],
       [id |-> "TW-JP-LA", stops |-> << <<"Port", "of", "Tokyo", ",", "Japan">> >>, timeDeltaDays |-> 2],
       [id |-> "TW-SG-LA", stops |-> << <<"Port", "of", "Singapore", ",", "Singapore">> >>, timeDeltaDays |-> 3],
       [id |-> "TW-SH-LA", stops |-> << <<"Port", "of", "Shanghai", ",", "China">> >>, timeDeltaDays |-> 2] >>

allRoutes == <<PRIMARY_ROUTE>> \o ALTERNATIVE_ROUTES

RouteIds == {allRoutes[i].id : i \in 1..Len(allRoutes)}

AltIds == {ALTERNATIVE_ROUTES[i].id : i \in 1..Len(ALTERNATIVE_ROUTES)}

InitialEta == 14

INITIAL_SHIPMENT ==
    [id |-> "ARK-SC-123", contents |-> "100x Semiconductor Containers",
     origin |-> "Port of Taipei, Taiwan", destination |-> "Port of Los Angeles, USA",
     currentRouteId |-> PRIMARY_ROUTE.id, eta |-> InitialEta]

-----------------------------------------------------------------------------
(* JavaScript helpers *)

Max(a, b) == IF a >= b THEN a ELSE b

Min(a, b) == IF a <= b THEN a ELSE b

\* a || b on numbers: 0 (and a missing field, held as 0) is falsy
Or(a, b) == IF a # 0 THEN a ELSE b

Entry(o, c, t, u) ==
    [overall |-> o, factors |-> [congestion |-> c, tariffs |-> t, unrest |-> u]]

\* updatedRiskProfile[id] = e on a copy of p
Put(p, id, e) == (id :> e) @@ p

\* riskProfile[id]?.overall || dflt
OverallOr(p, id, dflt) == IF id \in DOMAIN p THEN Or(p[id].overall, dflt) ELSE dflt

Null == <<>>

Some(x) == <<x>>

\* an EventLog entry: the message, with the route and the percentage it quotes
Ev(msg, route, pct) == [message |-> msg, route |-> route, pct |-> pct]

EmptyProfile == [k \in {} |-> Entry(0, 0, 0, 0)]

-----------------------------------------------------------------------------
(* Backend replies.  apiCall rejects on a network error or a non-2xx       *)
(* status (throws = TRUE); otherwise it resolves with the reply's JSON.    *)

Assessment(o, fc, ft, fu, bc, bt, bu) ==
    [overall_risk_score |-> o,
     factors |-> [congestion |-> fc, tariffs |-> ft, political_unrest |-> fu],
     breakdown |-> [port_congestion |-> bc, trade_news |-> bt, political |-> bu]]

NoAssessment == Assessment(0, 0, 0, 0, 0, 0, 0)

\* the assessment objects a successful reply of /api/routes/assess carries in
\* the model: an ordinary one (some factors under factors, some under breakdown,
\* some missing) and one whose numbers lie outside [0,1]
Assessments ==
    { Assessment(50, 40, 0, 0, 0, 30, 0),
      Assessment(150, 120, 0, 0, 0, 0, 0) }

AssessThrows ==
    [throws |-> TRUE, success |-> FALSE, hasAssessment |-> FALSE, assessment |-> NoAssessment]

AssessNoSuccess ==
    [throws |-> FALSE, success |-> FALSE, hasAssessment |-> FALSE, assessment |-> NoAssessment]

AssessOk(a) ==
    [throws |-> FALSE, success |-> TRUE, hasAssessment |-> TRUE, assessment |-> a]

\* /api/routes/assess: rejected, a reply without success, a successful reply
AssessOutcomes == {AssessThrows, AssessNoSuccess} \cup {AssessOk(a) : a \in Assessments}

RiskData(throws, hasData, length) == [throws |-> throws, hasData |-> hasData, length |-> length]

\* /api/data/all: rejected, a reply without data, or a data array of length n
RiskDataOutcomes ==
    { RiskData(TRUE, FALSE, 0), RiskData(FALSE, FALSE, 0), RiskData(FALSE, TRUE, 2) }

AgentInfo(throws, hasName) == [throws |-> throws, hasName |-> hasName]

\* /api/agent/info: rejected, a reply without a name, a reply with one
AgentInfoOutcomes ==
    { AgentInfo(TRUE, FALSE), AgentInfo(FALSE, FALSE), AgentInfo(FALSE, TRUE) }

\* Math.random() * 0.04 of the initial load, in hundredths: the two ends
InitJitter == {0, 3}

-----------------------------------------------------------------------------
(* State *)

VARIABLES
    page,           \* App: the page shown
    userConfig,     \* App: Null or Some(configuration)
    eventHistory,   \* App: the event log
    mount,          \* how many times DashboardPage has mounted; the live instance
    dash,           \* the live DashboardPage instance's useState values
    loads,          \* per mount: its fetchInitialData activation
    runs,           \* per mount: its triggerDisruption activation
    polls,          \* per mount: the activations of its polling callback
    analysisCall,   \* the activation of getPerplexityAnalysis
    routeMap        \* RouteMap module: PORT_COORDINATES and the lookups made

vars == <<page, userConfig, eventHistory, mount, dash, loads, runs, polls, analysisCall,
          routeMap>>

Mounts == 1..MaxMounts

\* the poll ticks of one instance, in the order they start
Ticks == 1..MaxTicks

\* the DashboardPage instance m is the one on screen
Live(m) == page = "dashboard" /\ mount = m

ShipmentIdOf(product) ==
    CASE product = "Semiconductors" -> "ARK-SC-SEM"
      [] product = "  " -> "ARK-SC-  "
      [] OTHER -> "ARK-SC-"

personalizedShipment(cfg) ==
    IF cfg = Null THEN INITIAL_SHIPMENT
    ELSE [INITIAL_SHIPMENT EXCEPT !.id = ShipmentIdOf(cfg[1].product),
                                  !.contents = cfg[1].product,
                                  !.origin = cfg[1].origin,
                                  !.destination = cfg[1].destination]

\* the useState initial values of DashboardPage
DashInit ==
    [error |-> Null,
     shipment |-> INITIAL_SHIPMENT,
     activeRouteId |-> PRIMARY_ROUTE.id,
     riskProfile |-> EmptyProfile,
     isDisruptionTriggered |-> FALSE,
     isLoading |-> FALSE,
     isAiLoading |-> FALSE,
     isInitialLoading |-> TRUE,
     aiAnalysis |-> "",
     notification |-> Null,
     riskDataPoints |-> 0,
     backendConnected |-> FALSE,
     pollInterval |-> 0]

\* a request to the backend: the endpoint and, for an assessment, the route
Req(endpoint, route) == [endpoint |-> endpoint, route |-> route]

\* issued: the requests the operation has sent so far, in order
LoadIdle ==
    [pc |-> "none", i |-> 0, historyWasEmpty |-> FALSE, updatedRiskProfile |-> EmptyProfile,
     issued |-> <<>>]

\* a log that keeps its latest three entries only
addEventCapped(prev, e) ==
    IF Len(prev) >= 3 THEN Append(Tail(prev), e) ELSE Append(prev, e)

\* an activation of the polling callback: closure is the riskProfile of the
\* render whose effect set the interval
TickIdle ==
    [pc |-> "idle", i |-> 0, closure |-> EmptyProfile, updatedRiskProfile |-> EmptyProfile,
     assessed |-> {}, issued |-> <<>>]

\* App.addEvent: setEventHistory(prev => [...prev, entry])
addEvent(prev, e) == Append(prev, e)

\* the addEvent calls of one stretch of code, in order
RECURSIVE addEvents(_, _)
addEvents(prev, es) ==
    IF es = <<>> THEN prev ELSE addEvents(addEvent(prev, Head(es)), Tail(es))

\* a setState that lands on whichever instance is mounted
SetDashOfAnyInstance(m, d) == dash' = d

\* a setState of instance m: dropped once m is no longer mounted
SetDash(m, d) == dash' = IF Live(m) THEN d ELSE dash

\* setInterval returns a handle that differs from the one just cleared
NewHandle(old) == IF old = 1 THEN 2 ELSE 1

\* an effect that sets the interval whatever the flag says
PollingEffectAlways(d) == [d EXCEPT !.pollInterval = NewHandle(@)]

\* the polling effect after a render in which one of its dependencies has
\* changed: the cleanup clears the interval, then a new one is set while
\* userConfig && isDisruptionTriggered
PollingEffect(d) ==
    [d EXCEPT !.pollInterval = IF userConfig # Null /\ d.isDisruptionTriggered
                               THEN NewHandle(@) ELSE 0]

\* setRiskProfile(p) with a new object: riskProfile is a dependency of the
\* polling effect, which runs again
setRiskProfile(d, p) == PollingEffect([d EXCEPT !.riskProfile = p])

-----------------------------------------------------------------------------
(* fetchInitialData: the initial-load effect of DashboardPage *)

\* assessment.factors?.x || breakdown.y || dflt
FactorOr(a, f, b, dflt) == Or(Or(a.factors[f], a.breakdown[b]), dflt)

ReplyHasAssessment(r) == ~r.throws /\ r.success /\ r.hasAssessment

PrimaryFallbackEntry == Entry(15, 10, 8, 12)

AltFallbackEntry(routeIndex) ==
    Entry(25 + routeIndex * 6, 20 + routeIndex * 5, 10 + routeIndex * 3, 20 + routeIndex * 4)

\* the risk-profile entry the initial load gives the primary route
InitPrimaryEntry(r) ==
    IF ReplyHasAssessment(r)
    THEN LET a == r.assessment
         IN Entry(Max(10, Or(a.overall_risk_score, 10)),
                  Max(5, FactorOr(a, "congestion", "port_congestion", 10)),
                  Max(5, FactorOr(a, "tariffs", "trade_news", 10)),
                  Max(5, FactorOr(a, "political_unrest", "political", 10)))
    ELSE PrimaryFallbackEntry

\* baseRisk + routeIndex * 0.06 + Math.random() * 0.04, kept in [0.2, 0.85]
InitAltFinalRisk(score, routeIndex, jitter) ==
    Min(85, Max(20, Max(15, Or(score, 20)) + routeIndex * 6 + jitter))

\* the risk-profile entry the initial load gives alternative route routeIndex
InitAltEntry(r, routeIndex, jitter) ==
    IF ReplyHasAssessment(r)
    THEN LET a == r.assessment
         IN Entry(InitAltFinalRisk(a.overall_risk_score, routeIndex, jitter),
                  Max(10, FactorOr(a, "congestion", "port_congestion", 20 + routeIndex * 5)),
                  Max(5, FactorOr(a, "tariffs", "trade_news", 10 + routeIndex * 3)),
                  Max(10, FactorOr(a, "political_unrest", "political", 20 + routeIndex * 4)))
    ELSE AltFallbackEntry(routeIndex)

\* allRoutes.forEach(route => if (!updatedRiskProfile[route.id]) ...)
EnsureAllRoutes(p) ==
    [id \in DOMAIN p \cup RouteIds |->
        IF id \in DOMAIN p THEN p[id]
        ELSE IF id = PRIMARY_ROUTE.id THEN PrimaryFallbackEntry
        ELSE AltFallbackEntry((CHOOSE i \in 1..Len(ALTERNATIVE_ROUTES) :
                                  ALTERNATIVE_ROUTES[i].id = id) - 1)]

\* mock data that covers the primary route only
MockPrimaryOnly == [id \in {PRIMARY_ROUTE.id} |-> Entry(10, 10, 10, 10)]

\* the outer catch's mock data: every route at 0.1
MockProfile == [id \in RouteIds |-> Entry(10, 10, 10, 10)]

\* if (eventHistory.length === 0) addEvent('Shipment ... created ...'); the
\* eventHistory read is the prop of the render that started the effect
ShipmentCreated(l) ==
    IF l.historyWasEmpty THEN <<Ev("Shipment created", PRIMARY_ROUTE.id, 0)>> ELSE <<>>

\* a load that sends the health check a second time before it goes on
LoadHealthRetrying(m, b) ==
    /\ loads[m].pc = "health"
    /\ loads' = IF Len(loads[m].issued) = 1
                THEN [loads EXCEPT ![m].issued = Append(@, Req("health", ""))]
                ELSE [loads EXCEPT ![m].pc = "agentInfo",
                                   ![m].issued = Append(@, Req("agentInfo", ""))]
    /\ UNCHANGED <<page, userConfig, eventHistory, mount, dash, runs, polls, analysisCall, routeMap>>

\* a load whose failed health check is only reported: it goes on to the agent
\* info request
LoadHealthContinuing(m, b) ==
    /\ loads[m].pc = "health"
    /\ SetDash(m, setRiskProfile([dash EXCEPT !.backendConnected = FALSE,
                                              !.error = Some("Backend connection failed"),
                                              !.isInitialLoading = FALSE],
                                  MockProfile))
    /\ eventHistory' = addEvents(eventHistory,
           <<Ev("Backend unavailable, using mock data", "", 0)>> \o ShipmentCreated(loads[m]))
    /\ loads' = [loads EXCEPT ![m].pc = "agentInfo",
                              ![m].issued = Append(@, Req("agentInfo", ""))]
    /\ UNCHANGED <<page, userConfig, mount, runs, polls, analysisCall, routeMap>>

\* await getApiHealth() settles
LoadHealth(m, b) ==
    /\ loads[m].pc = "health"
    /\ \E ok \in BOOLEAN :
        IF ok
        THEN /\ SetDash(m, [dash EXCEPT !.backendConnected = TRUE])
             /\ eventHistory' = addEvent(eventHistory, Ev("Connected to Arkham AI backend", "", 0))
             /\ loads' = [loads EXCEPT ![m].pc = "agentInfo",
                                       ![m].issued = Append(@, Req("agentInfo", ""))]
        ELSE /\ SetDash(m, setRiskProfile([dash EXCEPT !.backendConnected = FALSE,
                                                       !.error = Some("Backend connection failed"),
                                                       !.isInitialLoading = FALSE],
                                           MockProfile))
             /\ eventHistory' = addEvents(eventHistory,
                    <<Ev("Backend unavailable, using mock data", "", 0)>> \o ShipmentCreated(loads[m]))
             /\ loads' = [loads EXCEPT ![m].pc = "done"]
    /\ UNCHANGED <<page, userConfig, mount, runs, polls, analysisCall, routeMap>>

\* await getAgentInfo() settles
LoadAgentInfo(m, b) ==
    /\ loads[m].pc = "agentInfo"
    /\ \E r \in b.agentInfo :
        eventHistory' = IF ~r.throws /\ r.hasName
                        THEN addEvent(eventHistory, Ev("Arkham AI Agent", "", 0))
                        ELSE eventHistory
    /\ loads' = [loads EXCEPT ![m].pc = "riskData",
                              ![m].issued = Append(@, Req("riskData", ""))]
    /\ UNCHANGED <<page, userConfig, mount, dash, runs, polls, analysisCall, routeMap>>

\* await getAllRiskData(region, null) settles
LoadRiskData(m, b) ==
    /\ loads[m].pc = "riskData"
    /\ \E r \in b.riskData :
        IF ~r.throws /\ r.hasData
        THEN /\ SetDash(m, [dash EXCEPT !.riskDataPoints = r.length])
             /\ eventHistory' = addEvent(eventHistory, Ev("Loaded risk data points", "", r.length))
        ELSE UNCHANGED <<dash, eventHistory>>
    /\ loads' = [loads EXCEPT ![m].pc = "assess", ![m].i = 0,
                              ![m].issued = Append(@, Req("assess", PRIMARY_ROUTE.id)),
                              ![m].updatedRiskProfile = EmptyProfile]
    /\ UNCHANGED <<page, userConfig, mount, runs, polls, analysisCall, routeMap>>

\* await assessRoute(..., PRIMARY_ROUTE.id) settles
LoadAssessPrimary(m, b) ==
    /\ loads[m].pc = "assess"
    /\ loads[m].i = 0
    /\ \E r \in b.assess :
        /\ loads' = [loads EXCEPT
                ![m].i = 1,
                ![m].issued = Append(@, Req("assess", ALTERNATIVE_ROUTES[1].id)),
                ![m].updatedRiskProfile = Put(@, PRIMARY_ROUTE.id, InitPrimaryEntry(r))]
        /\ eventHistory' =
                IF ReplyHasAssessment(r)
                THEN addEvent(eventHistory, Ev("Primary route risk assessed", PRIMARY_ROUTE.id,
                                               Or(r.assessment.overall_risk_score, 10)))
                ELSE eventHistory
    /\ UNCHANGED <<page, userConfig, mount, dash, runs, polls, analysisCall, routeMap>>

\* await assessRoute(..., route.id) settles for ALTERNATIVE_ROUTES[i]; after the
\* last one the load fills the gaps, publishes the profile and ends
LoadAssessAlternative(m, b) ==
    /\ loads[m].pc = "assess"
    /\ loads[m].i \in 1..Len(ALTERNATIVE_ROUTES)
    /\ \E r \in b.assess, jitter \in b.initJitter :
        LET i == loads[m].i
            route == ALTERNATIVE_ROUTES[i]
            e == InitAltEntry(r, i - 1, jitter)
            p == Put(loads[m].updatedRiskProfile, route.id, e)
            assessed == IF ReplyHasAssessment(r)
                        THEN <<Ev("Route assessed", route.id, e.overall)>> ELSE <<>>
        IN IF i < Len(ALTERNATIVE_ROUTES)
           THEN /\ loads' = [loads EXCEPT
                        ![m].i = i + 1, ![m].updatedRiskProfile = p,
                        ![m].issued = Append(@, Req("assess", ALTERNATIVE_ROUTES[i + 1].id))]
                /\ eventHistory' = addEvents(eventHistory, assessed)
                /\ UNCHANGED dash
           ELSE /\ loads' = [loads EXCEPT ![m].pc = "done", ![m].updatedRiskProfile = p]
                /\ eventHistory' = addEvents(eventHistory,
                        assessed \o <<Ev("Route risk assessments completed", "", 0)>>
                                 \o ShipmentCreated(loads[m]))
                /\ SetDash(m, setRiskProfile([dash EXCEPT !.isInitialLoading = FALSE],
                                              EnsureAllRoutes(p)))
    /\ UNCHANGED <<page, userConfig, mount, runs, polls, analysisCall, routeMap>>

-----------------------------------------------------------------------------
(* String helpers, on names held as word sequences *)

\* toLowerCase of one word
LowerWord(w) ==
    CASE w = "Port" -> "port" [] w = "Ho" -> "ho" [] w = "Chi" -> "chi"
      [] w = "Minh" -> "minh" [] w = "City" -> "city" [] w = "Vietnam" -> "vietnam"
      [] w = "Tokyo" -> "tokyo" [] w = "Japan" -> "japan" [] w = "Singapore" -> "singapore"
      [] w = "Shanghai" -> "shanghai" [] w = "China" -> "china" [] w = "Busan" -> "busan"
      [] OTHER -> w

toLowerCase(name) == [k \in 1..Len(name) |-> LowerWord(name[k])]

\* name.split(',')[0]
FirstSegment(name) ==
    IF \E k \in 1..Len(name) : name[k] = ","
    THEN SubSeq(name, 1, (CHOOSE k \in 1..Len(name) :
                            name[k] = "," /\ \A j \in 1..(k - 1) : name[j] # ",") - 1)
    ELSE name

\* hay.includes(needle)
includes(hay, needle) ==
    \E k \in 0..(Len(hay) - Len(needle)) : SubSeq(hay, k + 1, k + Len(needle)) = needle

\* the waypoint/stop test of the optimizer's route matching
WaypointMatchesStop(wp, stop) ==
    LET wpName == toLowerCase(wp)
        stopName == toLowerCase(stop)
    IN \/ includes(wpName, FirstSegment(stopName))
       \/ includes(stopName, FirstSegment(wpName))
       \/ includes(wpName, <<"vietnam">>) /\ includes(stopName, <<"vietnam">>)
       \/ includes(wpName, <<"japan">>) /\ includes(stopName, <<"tokyo">>)
       \/ includes(wpName, <<"singapore">>) /\ includes(stopName, <<"singapore">>)
       \/ includes(wpName, <<"shanghai">>) /\ includes(stopName, <<"shanghai">>)

\* the predicate of the second allRoutes.find of the route matching
MatchesByWaypoints(fr, routeWaypoints) ==
    IF Len(routeWaypoints) = 0 /\ Len(fr.stops) = 0 THEN fr.id = PRIMARY_ROUTE.id
    ELSE IF Len(routeWaypoints) = Len(fr.stops)
    THEN \E w \in 1..Len(routeWaypoints), t \in 1..Len(fr.stops) :
            WaypointMatchesStop(routeWaypoints[w], fr.stops[t])
    ELSE FALSE

\* `route-${index}`
IndexKey(index) == "route-" \o ToString(index)

\* matchingFrontendRoute?.id || route.route_id || `route-${index}`
MatchedRouteId(route, index) ==
    IF route.route_id \in RouteIds THEN route.route_id
    ELSE IF \E k \in 1..Len(allRoutes) : MatchesByWaypoints(allRoutes[k], route.waypoints)
    THEN allRoutes[CHOOSE k \in 1..Len(allRoutes) :
                      /\ MatchesByWaypoints(allRoutes[k], route.waypoints)
                      /\ \A j \in 1..(k - 1) : ~MatchesByWaypoints(allRoutes[j], route.waypoints)].id
    ELSE IF route.route_id # "" THEN route.route_id
    ELSE IndexKey(index)

-----------------------------------------------------------------------------
(* triggerDisruption: the "Simulate Disruption Event" button *)

OptRoute(id, wps, metricsRisk, ra) ==
    [route_id |-> id, waypoints |-> wps, metrics_risk_score |-> metricsRisk,
     risk_assessment |-> ra]

\* the optimized_routes lists a successful reply of /api/routes/optimize carries
\* in the model: one that names the five routes by id ...
RoutesById ==
    << OptRoute("TW-LA-DIRECT", <<>>, 80, Assessment(0, 30, 90, 50, 0, 0, 0)),
       OptRoute("TW-VN-LA", <<>>, 30, NoAssessment),
       OptRoute("TW-JP-LA", <<>>, 0, Assessment(45, 0, 0, 0, 40, 0, 0)),
       OptRoute("TW-SG-LA", <<>>, 50, NoAssessment),
       OptRoute("TW-SH-LA", <<>>, 35, NoAssessment) >>

\* ... and one that names routes by waypoints, out of order, with an id and a
\* waypoint list that match no frontend route
RoutesByWaypoints ==
    << OptRoute("", << <<"Japan">> >>, 25, NoAssessment),
       OptRoute("", <<>>, 10, NoAssessment),
       OptRoute("BACKEND-7", << <<"Busan">> >>, 0, NoAssessment),
       OptRoute("", << <<"Vietnam">>, <<"Singapore">> >>, 95, NoAssessment),
       OptRoute("", << <<"Vietnam">> >>, 95, NoAssessment) >>

OptReply(throws, success, routes, malformed, recommendation) ==
    [throws |-> throws, success |-> success, optimized_routes |-> routes,
     malformed |-> malformed, recommendation |-> recommendation]

\* /api/routes/optimize: rejected; a reply without success or without routes
\* (with or without a recommendation text); a reply whose optimized_routes is
\* truthy but no list of routes (forEach throws); a successful reply
OptimizeOutcomes ==
    { OptReply(TRUE, FALSE, <<>>, FALSE, ""),
      OptReply(FALSE, FALSE, <<>>, FALSE, ""),
      OptReply(FALSE, FALSE, <<>>, FALSE, "Stay on the current route."),
      OptReply(FALSE, TRUE, <<>>, TRUE, ""),
      OptReply(FALSE, TRUE, RoutesById, FALSE, "Reroute via Vietnam."),
      OptReply(FALSE, TRUE, RoutesByWaypoints, FALSE, "") }

\* Math.random() * 0.1 of routeSpecificRisk, in hundredths: the two ends
RunJitter == {0, 9}

\* Math.random() * 0.03 of adjustedRisk, in hundredths: the two ends
PollJitter == {0, 3}

RunIdle ==
    [pc |-> "idle",
     closure |-> [riskProfile |-> EmptyProfile, activeRouteId |-> PRIMARY_ROUTE.id,
                  aiAnalysis |-> ""],
     riskData |-> RiskData(TRUE, FALSE, 0),
     recommendation |-> "",
     optimizer |-> "none",
     aiQuery |-> "none",
     issued |-> <<>>]

DisruptedPrimaryEntry == Entry(78, 30, 90, 50)

\* the entry the run writes for the primary route from its assessment
RunPrimaryEntry(a) ==
    Entry(Or(a.overall_risk_score, 78),
          FactorOr(a, "congestion", "port_congestion", 30),
          FactorOr(a, "tariffs", "trade_news", 90),
          FactorOr(a, "political_unrest", "political", 50))

\* fallback entries written over the profile on screen, whatever was closed over
OptimizerFallbackOnScreen(closureProfile) ==
    Put(Put(dash.riskProfile, ALTERNATIVE_ROUTES[1].id, Entry(32, 20, 10, 20)),
        ALTERNATIVE_ROUTES[2].id, Entry(45, 40, 10, 30))

\* the profile both optimizer fallbacks publish: a copy of the closed-over
\* riskProfile with the first two alternatives overwritten
OptimizerFallbackProfile(closureProfile) ==
    Put(Put(closureProfile, ALTERNATIVE_ROUTES[1].id, Entry(32, 20, 10, 20)),
        ALTERNATIVE_ROUTES[2].id, Entry(45, 40, 10, 30))

\* the entry routes.forEach writes for the route at (0-based) index
OptimizedEntry(route, index, jitter) ==
    LET ra == route.risk_assessment
        riskScore == Or(Or(route.metrics_risk_score, ra.overall_risk_score), 30 + index * 5)
        routeSpecificRisk == 30 + index * 8 + jitter
    IN Entry(Min(90, Max(20, Or(riskScore, routeSpecificRisk))),
             FactorOr(ra, "congestion", "port_congestion", 20 + index * 5),
             FactorOr(ra, "tariffs", "trade_news", 10 + index * 3),
             FactorOr(ra, "political_unrest", "political", 20 + index * 4))

\* routes.forEach((route, index) => updatedRiskProfile[routeId] = ...), from
\* the first k routes of the list
RECURSIVE ApplyOptimizedRoutes(_, _, _, _)
ApplyOptimizedRoutes(p, routes, k, jitter) ==
    IF k = 0 THEN p
    ELSE Put(ApplyOptimizedRoutes(p, routes, k - 1, jitter),
             MatchedRouteId(routes[k], k - 1),
             OptimizedEntry(routes[k], k - 1, jitter))

\* if (updatedRiskProfile[PRIMARY_ROUTE.id]) overall = Math.max(0.75, overall)
ClampPrimary(p) ==
    IF PRIMARY_ROUTE.id \in DOMAIN p
    THEN [p EXCEPT ![PRIMARY_ROUTE.id].overall = Max(75, @)]
    ELSE p

\* the profile a successful optimizer reply publishes
OptimizedProfile(closureProfile, routes, jitter) ==
    ClampPrimary(ApplyOptimizedRoutes(closureProfile, routes, Len(routes), jitter))

\* allRoutes.map(route => ({route, risk: riskProfile[route.id]?.overall || 1.0}))
routeRisks(p) ==
    [k \in 1..Len(allRoutes) |->
        [route |-> allRoutes[k], risk |-> OverallOr(p, allRoutes[k].id, 100)]]

\* Array.prototype.sort((a, b) => a.risk - b.risk): stable, ascending.  The
\* element at k goes behind those of smaller risk and behind the earlier ones
\* of equal risk
RankByRisk(s, k) ==
    1 + Cardinality({j \in 1..Len(s) :
                        s[j].risk < s[k].risk \/ (s[j].risk = s[k].risk /\ j < k)})

SortByRisk(s) ==
    [i \in 1..Len(s) |-> s[CHOOSE k \in 1..Len(s) : RankByRisk(s, k) = i]]

\* a selection that takes the head of the sorted list, the primary route included
bestOfAllRoutes(p) == SortByRisk(routeRisks(p))[1].route

\* routeRisks.find(r => r.route.id !== PRIMARY_ROUTE.id)?.route || ALTERNATIVE_ROUTES[0]
bestAlternative(p) ==
    LET sorted == SortByRisk(routeRisks(p))
        hits == {k \in 1..Len(sorted) : sorted[k].route.id # PRIMARY_ROUTE.id}
    IN IF hits = {} THEN ALTERNATIVE_ROUTES[1]
       ELSE sorted[CHOOSE k \in hits : \A j \in hits : k <= j].route

Note(msg, route, from, to) == [message |-> msg, route |-> route, from |-> from, to |-> to]

\* a button that stays rendered after the disruption was triggered
DisruptionButtonStaysRendered(m) ==
    /\ Live(m)
    /\ userConfig # Null
    /\ ~dash.isInitialLoading
    /\ dash.error = Null
    /\ ~dash.isLoading

\* the button is rendered by Dashboard (past the three early returns of
\* DashboardPage) while !isDisruptionTriggered, and enabled while !isLoading
DisruptionButtonEnabled(m) ==
    /\ Live(m)
    /\ userConfig # Null
    /\ ~dash.isInitialLoading
    /\ dash.error = Null
    /\ ~dash.isDisruptionTriggered
    /\ ~dash.isLoading

\* a click that is taken whenever no run is loading, also after a run has ended
TriggerDisruptionAgain(m) ==
    /\ DisruptionButtonStaysRendered(m)
    /\ dash' = PollingEffect([dash EXCEPT
                    !.isLoading = TRUE,
                    !.isDisruptionTriggered = TRUE,
                    !.notification = Some(Note("Potential disruption detected", "", 0, 0))])
    /\ eventHistory' = addEvent(eventHistory, Ev("DISRUPTION DETECTED", "", 0))
    /\ runs' = [runs EXCEPT ![m] =
            [RunIdle EXCEPT !.pc = "health",
                            !.issued = <<Req("health", "")>>,
                            !.closure = [riskProfile |-> dash.riskProfile,
                                         activeRouteId |-> dash.activeRouteId,
                                         aiAnalysis |-> dash.aiAnalysis]]]
    /\ UNCHANGED <<page, userConfig, mount, loads, polls, analysisCall, routeMap>>

\* the click: triggerDisruption up to its first await.  The callback closes
\* over riskProfile and activeRouteId of the latest render (its dependency
\* list) and over aiAnalysis, which no earlier code of the mount has changed
TriggerDisruption(m) ==
    /\ DisruptionButtonEnabled(m)
    /\ dash' = PollingEffect([dash EXCEPT
                    !.isLoading = TRUE,
                    !.isDisruptionTriggered = TRUE,
                    !.notification = Some(Note("Potential disruption detected", "", 0, 0))])
    /\ eventHistory' = addEvent(eventHistory, Ev("DISRUPTION DETECTED", "", 0))
    /\ runs' = [runs EXCEPT ![m] =
            [RunIdle EXCEPT !.pc = "health",
                            !.issued = <<Req("health", "")>>,
                            !.closure = [riskProfile |-> dash.riskProfile,
                                         activeRouteId |-> dash.activeRouteId,
                                         aiAnalysis |-> dash.aiAnalysis]]]
    /\ UNCHANGED <<page, userConfig, mount, loads, polls, analysisCall, routeMap>>

\* a run that asks for the primary assessment before the risk data
RunHealthThenPrimary(m, b) ==
    /\ runs[m].pc = "health"
    /\ runs' = [runs EXCEPT ![m].pc = "primary",
                            ![m].issued = Append(@, Req("assess", PRIMARY_ROUTE.id))]
    /\ UNCHANGED <<page, userConfig, eventHistory, mount, dash, loads, polls, analysisCall, routeMap>>

\* await getApiHealth() settles; a rejection is only logged
RunHealth(m, b) ==
    /\ runs[m].pc = "health"
    /\ \E ok \in BOOLEAN :
        runs' = [runs EXCEPT ![m].pc = "riskData",
                             ![m].issued = Append(@, Req("riskData", ""))]
    /\ UNCHANGED <<page, userConfig, eventHistory, mount, dash, loads, polls, analysisCall, routeMap>>

\* await getAllRiskData(region, null) settles
RunRiskData(m, b) ==
    /\ runs[m].pc = "riskData"
    /\ \E r \in b.riskData :
        /\ runs' = [runs EXCEPT ![m].pc = "primary", ![m].riskData = r,
                                ![m].issued = Append(@, Req("assess", PRIMARY_ROUTE.id))]
        /\ IF ~r.throws /\ r.hasData /\ r.length > 0
           THEN /\ SetDash(m, [dash EXCEPT !.riskDataPoints = r.length])
                /\ eventHistory' = addEvent(eventHistory, Ev("Fetched risk data points", "", r.length))
           ELSE UNCHANGED <<dash, eventHistory>>
    /\ UNCHANGED <<page, userConfig, mount, loads, polls, analysisCall, routeMap>>

\* await assessRoute(..., PRIMARY_ROUTE.id) settles
RunPrimary(m, b) ==
    /\ runs[m].pc = "primary"
    /\ \E r \in b.assess :
        LET c == runs[m].closure
        IN IF r.throws
           THEN /\ SetDash(m, setRiskProfile(dash,
                        Put(c.riskProfile, PRIMARY_ROUTE.id, DisruptedPrimaryEntry)))
                /\ UNCHANGED eventHistory
           ELSE IF ReplyHasAssessment(r)
           THEN /\ SetDash(m, setRiskProfile(dash,
                        Put(c.riskProfile, PRIMARY_ROUTE.id, RunPrimaryEntry(r.assessment))))
                /\ eventHistory' = addEvent(eventHistory,
                        Ev("Primary route risk assessed", PRIMARY_ROUTE.id,
                           Or(r.assessment.overall_risk_score, 78)))
           ELSE UNCHANGED <<dash, eventHistory>>
    /\ runs' = [runs EXCEPT ![m].pc = "optimize",
                            ![m].issued = Append(@, Req("optimize", ""))]
    /\ UNCHANGED <<page, userConfig, mount, loads, polls, analysisCall, routeMap>>

\* the end of the try block and the finally: the route selection, read from
\* the closed-over riskProfile and activeRouteId, then setIsLoading(false).
\* d and h are the dashboard state and the history the stretch has built so far
FinishRun(m, d, h) ==
    LET c == runs[m].closure
        best == bestAlternative(c.riskProfile)
        reroute == best.id # c.activeRouteId
        primaryRisk == OverallOr(c.riskProfile, PRIMARY_ROUTE.id, 78)
        bestRisk == OverallOr(c.riskProfile, best.id, 32)
    IN /\ SetDash(m, IF reroute
                     THEN [d EXCEPT !.activeRouteId = best.id,
                                    !.notification = Some(Note("Rerouting complete", best.id,
                                                               primaryRisk, bestRisk)),
                                    !.isLoading = FALSE]
                     ELSE [d EXCEPT !.isLoading = FALSE])
       /\ eventHistory' = IF reroute THEN addEvent(h, Ev("Route updated", best.id, 0)) ELSE h

\* await optimizeRoute(...) settles; then either the AI query starts (the
\* dynamic import is awaited first) or the run goes on to the selection
RunOptimize(m, b) ==
    /\ runs[m].pc = "optimize"
    /\ \E r \in b.optimize, jitter \in b.runJitter :
        LET c == runs[m].closure
            rd == runs[m].riskData
            ok == ~r.throws /\ r.success /\ r.optimized_routes # <<>> /\ ~r.malformed
            rec == IF r.throws THEN "" ELSE r.recommendation
            d1 == IF ok
                  THEN setRiskProfile(
                          [dash EXCEPT
                            !.riskDataPoints = IF ~rd.throws /\ rd.hasData THEN rd.length ELSE @,
                            !.aiAnalysis = IF rec # "" THEN rec ELSE @],
                          OptimizedProfile(c.riskProfile, r.optimized_routes, jitter))
                  ELSE setRiskProfile(dash, OptimizerFallbackProfile(c.riskProfile))
            h1 == IF ok
                  THEN addEvents(eventHistory,
                          <<Ev("Found optimized routes", "", Len(r.optimized_routes))>>
                          \o (IF rec # "" THEN <<Ev("AI Recommendation received from backend", "", 0)>>
                              ELSE <<>>))
                  ELSE eventHistory
        IN IF rec = "" \/ c.aiAnalysis = ""
           THEN /\ SetDash(m, [d1 EXCEPT !.isAiLoading = TRUE])
                /\ eventHistory' = h1
                /\ runs' = [runs EXCEPT ![m].pc = "import", ![m].recommendation = rec,
                                        ![m].optimizer = IF ok THEN "routes" ELSE "fallback"]
           ELSE /\ FinishRun(m, [d1 EXCEPT !.isAiLoading = FALSE], h1)
                /\ runs' = [runs EXCEPT ![m].pc = "done", ![m].recommendation = rec,
                                        ![m].optimizer = IF ok THEN "routes" ELSE "fallback"]
    /\ UNCHANGED <<page, userConfig, mount, loads, polls, analysisCall, routeMap>>

\* await import('./services/vertexAIService') settles
RunImport(m, b) ==
    /\ runs[m].pc = "import"
    /\ \E ok \in BOOLEAN :
        IF ok
        THEN /\ eventHistory' = addEvent(eventHistory, Ev("Arkham AI agent analyzing routes", "", 0))
             /\ runs' = [runs EXCEPT ![m].pc = "ai",
                                     ![m].issued = Append(@, Req("agentQuery", ""))]
             /\ UNCHANGED dash
        ELSE /\ FinishRun(m, [dash EXCEPT !.isAiLoading = FALSE], eventHistory)
             /\ runs' = [runs EXCEPT ![m].pc = "done", ![m].aiQuery = "failed"]
    /\ UNCHANGED <<page, userConfig, mount, loads, polls, analysisCall, routeMap>>

\* queryVertexAI resolves with a non-empty text only; a transport error, a
\* non-2xx status, a reply without success or with an empty response all throw
AiOutcomes == {"", "Reroute through Vietnam: lowest risk."}

\* what the backend may reply in a specification
RichBackend ==
    [assess |-> AssessOutcomes, initJitter |-> InitJitter, riskData |-> RiskDataOutcomes,
     agentInfo |-> AgentInfoOutcomes, optimize |-> OptimizeOutcomes, runJitter |-> RunJitter,
     ai |-> AiOutcomes, pollJitter |-> PollJitter]

\* await queryVertexAI(prompt) settles ("" stands for a rejection)
RunAi(m, b) ==
    /\ runs[m].pc = "ai"
    /\ \E analysis \in b.ai :
        /\ IF analysis # ""
           THEN FinishRun(m, [dash EXCEPT !.aiAnalysis = analysis, !.isAiLoading = FALSE],
                          addEvent(eventHistory,
                                   Ev("AI Recommendation received from Arkham AI agent", "", 0)))
           ELSE FinishRun(m, [dash EXCEPT !.isAiLoading = FALSE], eventHistory)
        /\ runs' = [runs EXCEPT ![m].pc = "done",
                                ![m].aiQuery = IF analysis # "" THEN "answered" ELSE "failed"]
    /\ UNCHANGED <<page, userConfig, mount, loads, polls, analysisCall, routeMap>>

-----------------------------------------------------------------------------
(* App: navigation.  DashboardPage is mounted while page = "dashboard";    *)
(* its state is created by the mount and gone with the unmount.            *)

-----------------------------------------------------------------------------
(* The polling effect: setInterval(async () => {...}, 10000)               *)
(* Time is not measured: while the interval is set its callback may start  *)
(* at any moment, also while an earlier activation is still awaiting.      *)

\* the entry a tick writes for the primary route: no bounds
PollPrimaryEntry(a) ==
    Entry(Or(a.overall_risk_score, 10),
          FactorOr(a, "congestion", "port_congestion", 10),
          FactorOr(a, "tariffs", "trade_news", 10),
          FactorOr(a, "political_unrest", "political", 10))

\* Math.min(0.9, Math.max(0.15, baseRisk + routeIndex * 0.05 + random))
PollAltFinalRisk(score, routeIndex, jitter) ==
    Min(90, Max(15, Or(score, 20) + routeIndex * 5 + jitter))

PollAltEntry(a, routeIndex, jitter) ==
    Entry(PollAltFinalRisk(a.overall_risk_score, routeIndex, jitter),
          FactorOr(a, "congestion", "port_congestion", 20 + routeIndex * 5),
          FactorOr(a, "tariffs", "trade_news", 10 + routeIndex * 2),
          FactorOr(a, "political_unrest", "political", 20 + routeIndex * 3))

\* the interval fires: the callback starts and sends its first request.
\* The tick is the k-th of its instance
PollTick(m) ==
    /\ Live(m)
    /\ dash.pollInterval # 0
    /\ \E k \in Ticks :
        /\ polls[m][k].pc = "idle"
        /\ \A j \in 1..(k - 1) : polls[m][j].pc # "idle"
        /\ polls' = [polls EXCEPT ![m][k] =
                [TickIdle EXCEPT !.pc = "riskData",
                                 !.closure = dash.riskProfile,
                                 !.issued = <<Req("riskData", "")>>]]
    /\ UNCHANGED <<page, userConfig, eventHistory, mount, dash, loads, runs, analysisCall, routeMap>>

\* await getAllRiskData(region, null) settles; a rejection ends the tick in
\* the outer catch
PollRiskData(m, b) ==
    /\ \E k \in Ticks, r \in b.riskData :
        /\ polls[m][k].pc = "riskData"
        /\ IF r.throws
           THEN /\ polls' = [polls EXCEPT ![m][k].pc = "done"]
                /\ UNCHANGED <<dash, eventHistory>>
           ELSE /\ polls' = [polls EXCEPT
                        ![m][k].pc = "assess", ![m][k].i = 0,
                        ![m][k].updatedRiskProfile = polls[m][k].closure,
                        ![m][k].issued = Append(@, Req("assess", PRIMARY_ROUTE.id))]
                /\ IF r.hasData /\ r.length > 0
                   THEN /\ SetDash(m, [dash EXCEPT !.riskDataPoints = r.length])
                        /\ eventHistory' = addEvent(eventHistory,
                                                    Ev("Risk data updated", "", r.length))
                   ELSE UNCHANGED <<dash, eventHistory>>
    /\ UNCHANGED <<page, userConfig, mount, loads, runs, analysisCall, routeMap>>

\* await assessRoute(..., PRIMARY_ROUTE.id) settles
PollAssessPrimary(m, b) ==
    /\ \E k \in Ticks, r \in b.assess :
        /\ polls[m][k].pc = "assess"
        /\ polls[m][k].i = 0
        /\ polls' = [polls EXCEPT
                ![m][k].i = 1,
                ![m][k].updatedRiskProfile =
                    IF ReplyHasAssessment(r)
                    THEN Put(@, PRIMARY_ROUTE.id, PollPrimaryEntry(r.assessment)) ELSE @,
                ![m][k].assessed = IF ReplyHasAssessment(r) THEN {PRIMARY_ROUTE.id} ELSE {},
                ![m][k].issued = Append(@, Req("assess", ALTERNATIVE_ROUTES[1].id))]
    /\ UNCHANGED <<page, userConfig, eventHistory, mount, dash, loads, runs, analysisCall, routeMap>>

\* await assessRoute(..., route.id) settles for ALTERNATIVE_ROUTES[i]; after the
\* last one the tick publishes its profile and ends
PollAssessAlternative(m, b) ==
    /\ \E k \in Ticks, r \in b.assess, jitter \in b.pollJitter :
        /\ polls[m][k].pc = "assess"
        /\ polls[m][k].i \in 1..Len(ALTERNATIVE_ROUTES)
        /\ LET i == polls[m][k].i
               route == ALTERNATIVE_ROUTES[i]
               p == IF ReplyHasAssessment(r)
                    THEN Put(polls[m][k].updatedRiskProfile, route.id,
                             PollAltEntry(r.assessment, i - 1, jitter))
                    ELSE polls[m][k].updatedRiskProfile
               done == IF ReplyHasAssessment(r)
                       THEN polls[m][k].assessed \cup {route.id}
                       ELSE polls[m][k].assessed
           IN IF i < Len(ALTERNATIVE_ROUTES)
              THEN /\ polls' = [polls EXCEPT
                           ![m][k].i = i + 1, ![m][k].updatedRiskProfile = p,
                           ![m][k].assessed = done,
                           ![m][k].issued = Append(@, Req("assess", ALTERNATIVE_ROUTES[i + 1].id))]
                   /\ UNCHANGED dash
              ELSE /\ polls' = [polls EXCEPT ![m][k].pc = "done", ![m][k].updatedRiskProfile = p,
                                               ![m][k].assessed = done]
                   /\ SetDash(m, setRiskProfile(dash, p))
    /\ UNCHANGED <<page, userConfig, eventHistory, mount, loads, runs, analysisCall, routeMap>>

\* the steps of the polling callback
PollNext(b) ==
    \E m \in Mounts :
        \/ PollTick(m)
        \/ PollRiskData(m, b)
        \/ PollAssessPrimary(m, b)
        \/ PollAssessAlternative(m, b)

-----------------------------------------------------------------------------
(* perplexityService: getPerplexityAnalysis and its direct fallback *)

\* import.meta.env.PERPLEXITY_API_KEY: undefined (falsy) or a key
ApiKeys == {"", "pplx-key"}

\* what the promise of an async function settles to
Resolved(text) == [rejects |-> FALSE, text |-> text]

Rejected == [rejects |-> TRUE, text |-> ""]

\* queryAgent(prompt): rejects, or resolves with the JSON body of the reply
AgentReply(throws, success, response) ==
    [throws |-> throws, success |-> success, response |-> response]

AgentReplies ==
    {AgentReply(TRUE, FALSE, "")}
        \cup {AgentReply(FALSE, success, response) :
                success \in BOOLEAN,
                response \in {"", "Vietnam is the safest option.", "Hold the shipment."}}

\* the direct call: fetch rejects, or resolves with response.ok and a body that
\* has a choices array or not; content is choices[0]?.message?.content, "" when
\* any link of the chain is missing
DirectReply(throws, ok, hasChoices, content) ==
    [throws |-> throws, ok |-> ok, hasChoices |-> hasChoices, content |-> content]

DirectReplies ==
    {DirectReply(TRUE, FALSE, FALSE, ""),
     DirectReply(FALSE, FALSE, FALSE, ""),
     DirectReply(FALSE, TRUE, FALSE, ""),
     DirectReply(FALSE, TRUE, TRUE, ""),
     DirectReply(FALSE, TRUE, TRUE, "Reroute via Singapore.")}

\* "Option 3: Fallback to mock response"
CannedAnalysis ==
    "Based on the analysis, I recommend selecting the alternative route with the lowest risk score (32%). This route provides the best balance between risk reduction and minimal time impact."

\* if (response.success && response.response)
AgentAnswered(r) == ~r.throws /\ r.success /\ r.response # ""

\* getDirectPerplexityAnalysis(prompt) under key, once its fetch settled as d
getDirectPerplexityAnalysis(key, d) ==
    IF key = "" THEN Rejected
    ELSE IF d.throws \/ ~d.ok \/ ~d.hasChoices THEN Rejected
    ELSE Resolved(IF d.content # "" THEN d.content ELSE "No response from Perplexity API")

AnalysisIdle ==
    [pc |-> "none", key |-> "", agent |-> AgentReply(TRUE, FALSE, ""),
     direct |-> DirectReply(TRUE, FALSE, FALSE, ""), issued |-> <<>>, result |-> Rejected]

\* a call that returns whatever a successful agent reply holds, empty or not
AgentSettlesOnSuccess ==
    /\ analysisCall.pc = "agent"
    /\ analysisCall' = IF ~analysisCall.agent.throws /\ analysisCall.agent.success
                   THEN [analysisCall EXCEPT !.pc = "done",
                                         !.result = Resolved(analysisCall.agent.response)]
                   ELSE [analysisCall EXCEPT !.pc = "done", !.result = Resolved(CannedAnalysis)]
    /\ UNCHANGED <<page, userConfig, eventHistory, mount, dash, loads, runs, polls, routeMap>>

\* await queryAgent(prompt) settles
AgentSettles ==
    /\ analysisCall.pc = "agent"
    /\ analysisCall' =
         IF AgentAnswered(analysisCall.agent)
         THEN [analysisCall EXCEPT !.pc = "done", !.result = Resolved(analysisCall.agent.response)]
         ELSE IF analysisCall.key # ""
         THEN [analysisCall EXCEPT !.pc = "direct",
                               !.issued = Append(@, Req("perplexity", ""))]
         ELSE [analysisCall EXCEPT !.pc = "done", !.result = Resolved(CannedAnalysis)]
    /\ UNCHANGED <<page, userConfig, eventHistory, mount, dash, loads, runs, polls, routeMap>>

\* the promise of getDirectPerplexityAnalysis(prompt) settles
DirectSettles ==
    /\ analysisCall.pc = "direct"
    /\ analysisCall' = [analysisCall EXCEPT
            !.pc = "done",
            !.result = getDirectPerplexityAnalysis(analysisCall.key, analysisCall.direct)]
    /\ UNCHANGED <<page, userConfig, eventHistory, mount, dash, loads, runs, polls, routeMap>>

-----------------------------------------------------------------------------
(* RouteMap: getPortCoordinates and geocodePort.  Coordinates are in whole  *)
(* degrees.  The geocoding service answers a name with the one location of  *)
(* that name, or fails.                                                     *)

LatLng(lat, lng) == [lat |-> lat, lng |-> lng]

\* the names looked up: two of the table and two the table does not hold
PortNames ==
    {"Port of Taipei, Taiwan", "Port of Los Angeles, USA",
     "Port of Kaohsiung, Taiwan", "Port of Oakland, USA"}

\* const PORT_COORDINATES, as the module is loaded, on the names looked up
PORT_COORDINATES ==
    ("Port of Taipei, Taiwan" :> LatLng(25, 122))
        @@ ("Port of Los Angeles, USA" :> LatLng(34, -118))

\* data.results[0].geometry.location of a geocoding reply for portName
GeocodedLocation(portName) ==
    IF portName = "Port of Kaohsiung, Taiwan" THEN LatLng(23, 120) ELSE LatLng(38, -122)

\* "Fallback to default"
DefaultCoordinates == LatLng(0, 0)

\* import.meta.env.VITE_GOOGLE_MAPS_API_KEY: undefined or a key
MapsApiKeys == {"", "maps-key"}

LookupIdle ==
    [pc |-> "idle", portName |-> "", issued |-> <<>>, coords |-> Null,
     result |-> DefaultCoordinates]

Lookups == 1..MaxLookups

RouteMapIdle ==
    [API_KEY |-> "", PORT_COORDINATES |-> PORT_COORDINATES,
     lookups |-> [k \in Lookups |-> LookupIdle]]

\* getPortCoordinates(portName) is called and runs to its first await
getPortCoordinates(k, portName) ==
    /\ routeMap.lookups[k].pc = "idle"
    /\ \A j \in 1..(k - 1) : routeMap.lookups[j].pc # "idle"
    /\ routeMap' =
         IF portName \in DOMAIN routeMap.PORT_COORDINATES
         THEN [routeMap EXCEPT !.lookups[k] =
                  [LookupIdle EXCEPT !.pc = "done", !.portName = portName,
                                     !.result = routeMap.PORT_COORDINATES[portName]]]
         ELSE IF routeMap.API_KEY = ""
         THEN [routeMap EXCEPT !.lookups[k] =
                  [LookupIdle EXCEPT !.pc = "done", !.portName = portName]]
         ELSE [routeMap EXCEPT !.lookups[k] =
                  [LookupIdle EXCEPT !.pc = "geocode", !.portName = portName,
                                     !.issued = <<Req("geocode", portName)>>]]
    /\ UNCHANGED <<page, userConfig, eventHistory, mount, dash, loads, runs, polls,
                   analysisCall>>

\* a lookup that returns a geocoded location without storing it
geocodePortSettlesUnstored(k) ==
    /\ routeMap.lookups[k].pc = "geocode"
    /\ routeMap' = [routeMap EXCEPT
            !.lookups[k].pc = "done",
            !.lookups[k].coords = Some(GeocodedLocation(routeMap.lookups[k].portName)),
            !.lookups[k].result = GeocodedLocation(routeMap.lookups[k].portName)]
    /\ UNCHANGED <<page, userConfig, eventHistory, mount, dash, loads, runs, polls,
                   analysisCall>>

\* await geocodePort(portName) settles: with a location, or with null (fetch
\* or response.json() rejected, no results, no geometry)
geocodePortSettles(k) ==
    /\ routeMap.lookups[k].pc = "geocode"
    /\ \E found \in BOOLEAN :
        LET portName == routeMap.lookups[k].portName
            location == GeocodedLocation(portName)
        IN routeMap' =
             IF found
             THEN [routeMap EXCEPT
                     !.PORT_COORDINATES = (portName :> location) @@ @,
                     !.lookups[k].pc = "done",
                     !.lookups[k].coords = Some(location),
                     !.lookups[k].result = location]
             ELSE [routeMap EXCEPT !.lookups[k].pc = "done"]
    /\ UNCHANGED <<page, userConfig, eventHistory, mount, dash, loads, runs, polls,
                   analysisCall>>

-----------------------------------------------------------------------------
(* Mount and the dashboard's specifications *)

DefaultConfig ==
    [product |-> "Semiconductors", origin |-> "Port of Taipei, Taiwan",
     destination |-> "Port of Los Angeles, USA"]

\* a mount whose load effect does not look at the configuration
MountDashboardUnguarded(h, cfg) ==
    /\ mount < MaxMounts
    /\ mount' = mount + 1
    /\ dash' = [DashInit EXCEPT !.shipment = personalizedShipment(cfg),
                                !.isInitialLoading = TRUE,
                                !.error = Null]
    /\ loads' = [loads EXCEPT ![mount + 1] =
            [LoadIdle EXCEPT !.pc = "health", !.historyWasEmpty = (Len(h) = 0),
                             !.issued = <<Req("health", "")>>]]

\* the first render and the mount effects of DashboardPage, under history h
\* and configuration cfg
MountDashboard(h, cfg) ==
    /\ mount < MaxMounts
    /\ mount' = mount + 1
    /\ IF cfg = Null
       THEN /\ dash' = [DashInit EXCEPT !.isInitialLoading = FALSE]
            /\ UNCHANGED loads
       ELSE /\ dash' = [DashInit EXCEPT !.shipment = personalizedShipment(cfg),
                                        !.isInitialLoading = TRUE,
                                        !.error = Null]
            /\ loads' = [loads EXCEPT ![mount + 1] =
                    [LoadIdle EXCEPT !.pc = "health", !.historyWasEmpty = (Len(h) = 0),
                                     !.issued = <<Req("health", "")>>]]

\* the dashboard with a configuration, as its mount leaves it
Init ==
    /\ page = "dashboard"
    /\ userConfig = Some(DefaultConfig)
    /\ eventHistory = <<>>
    /\ mount = 1
    /\ dash = [DashInit EXCEPT !.shipment = personalizedShipment(Some(DefaultConfig))]
    /\ loads = [m \in Mounts |-> IF m = 1 THEN [LoadIdle EXCEPT !.pc = "health",
                                                                !.issued = <<Req("health", "")>>,
                                                                !.historyWasEmpty = TRUE]
                                 ELSE LoadIdle]
    /\ runs = [m \in Mounts |-> RunIdle]
    /\ polls = [m \in Mounts |-> [k \in Ticks |-> TickIdle]]
    /\ analysisCall = AnalysisIdle
    /\ routeMap = RouteMapIdle

\* the steps of the asynchronous functions in flight, and the button
DashboardNext(b) ==
    \E m \in Mounts :
        \/ LoadHealth(m, b)
        \/ LoadAgentInfo(m, b)
        \/ LoadRiskData(m, b)
        \/ LoadAssessPrimary(m, b)
        \/ LoadAssessAlternative(m, b)
        \/ TriggerDisruption(m)
        \/ RunHealth(m, b)
        \/ RunRiskData(m, b)
        \/ RunPrimary(m, b)
        \/ RunOptimize(m, b)
        \/ RunImport(m, b)
        \/ RunAi(m, b)

Next == DashboardNext(RichBackend)

Spec == Init /\ [][Next]_vars

\* every backend call (and the dynamic import) in flight settles
CallsSettle(b) ==
    \A m \in Mounts :
        /\ WF_vars(LoadHealth(m, b) \/ LoadAgentInfo(m, b) \/ LoadRiskData(m, b)
                   \/ LoadAssessPrimary(m, b) \/ LoadAssessAlternative(m, b))
        /\ WF_vars(RunHealth(m, b) \/ RunRiskData(m, b) \/ RunPrimary(m, b)
                   \/ RunOptimize(m, b) \/ RunImport(m, b) \/ RunAi(m, b))

\* a backend each of whose calls may fail, with one successful assessment, one
\* reply without success and every kind of optimizer reply
PlainBackend ==
    [assess |-> {AssessThrows, AssessNoSuccess, AssessOk(Assessment(50, 40, 0, 0, 0, 30, 0))},
     initJitter |-> {0},
     riskData |-> {RiskData(TRUE, FALSE, 0)},
     agentInfo |-> {AgentInfo(TRUE, FALSE)},
     optimize |-> OptimizeOutcomes,
     runJitter |-> {0},
     ai |-> AiOutcomes,
     pollJitter |-> {0}]

FairNext == DashboardNext(PlainBackend)

\* the dashboard's operations when every call in flight settles
FairSpec == Init /\ [][FairNext]_vars /\ CallsSettle(PlainBackend)

-----------------------------------------------------------------------------
(* App: the pages and the handlers that navigate.  window.location.reload() *)
(* (the error screens' button) ends the session and is not a step of it.   *)

\* a check that takes the field value as typed
untrimmed(v) == v

\* String.prototype.trim on the field values of the model
trim(v) == IF v = "  " THEN "" ELSE v

\* what the user may have typed into a field of the onboarding form
ProductInputs == {"Semiconductors", "  "}

OriginInputs == {"Port of Taipei, Taiwan", ""}

DestinationInputs == {"Port of Los Angeles, USA", ""}

AppInit ==
    /\ page = "landing"
    /\ userConfig = Null
    /\ eventHistory = <<>>
    /\ mount = 0
    /\ dash = DashInit
    /\ loads = [m \in Mounts |-> LoadIdle]
    /\ runs = [m \in Mounts |-> RunIdle]
    /\ polls = [m \in Mounts |-> [k \in Ticks |-> TickIdle]]
    /\ analysisCall = AnalysisIdle
    /\ routeMap = RouteMapIdle

\* App.navigate(newPage) under configuration cfg: setPage, which unmounts the
\* page shown and mounts the new one (nothing happens when it is the same page)
navigate(newPage, cfg) ==
    /\ page' = newPage
    /\ IF newPage = "dashboard" /\ page # "dashboard"
       THEN MountDashboard(eventHistory, cfg)
       ELSE /\ UNCHANGED <<mount, loads>>
            /\ dash' = IF newPage # "dashboard" THEN DashInit ELSE dash

\* LandingPage: "Sign In" / "Get Started for Free"
LandingGoToAuth ==
    /\ page = "landing"
    /\ navigate("auth", userConfig)
    /\ UNCHANGED <<userConfig, eventHistory, runs, polls, analysisCall, routeMap>>

\* AuthPage.handleSubmit
AuthSubmit ==
    /\ page = "auth"
    /\ \E isLogin \in BOOLEAN :
        IF isLogin
        THEN /\ navigate("dashboard", userConfig)
             /\ UNCHANGED userConfig
        ELSE /\ userConfig' = Null
             /\ navigate("onboarding", Null)
    /\ UNCHANGED <<eventHistory, runs, polls, analysisCall, routeMap>>

\* OnboardingPage.handleSubmit
OnboardingSubmit ==
    /\ page = "onboarding"
    /\ \E product \in ProductInputs, origin \in OriginInputs, destination \in DestinationInputs :
        IF trim(product) = "" \/ trim(origin) = "" \/ trim(destination) = ""
        THEN UNCHANGED <<page, userConfig, mount, dash, loads>>
        ELSE LET cfg == Some([product |-> product, origin |-> origin,
                              destination |-> destination])
             IN /\ userConfig' = cfg
                /\ navigate("dashboard", cfg)
    /\ UNCHANGED <<eventHistory, runs, polls, analysisCall, routeMap>>

\* Header, on the dashboard, history and settings pages: the logo, and the
\* Configuration, Settings and Log Out entries of the menu
HeaderNavigate ==
    /\ page \in {"dashboard", "history", "settings"}
    /\ \E newPage \in {"dashboard", "onboarding", "settings", "landing"} :
        navigate(newPage, userConfig)
    /\ UNCHANGED <<userConfig, eventHistory, runs, polls, analysisCall, routeMap>>

\* Dashboard: "View Full History" (rendered with the disruption button)
ViewHistory ==
    /\ page = "dashboard"
    /\ userConfig # Null
    /\ ~dash.isInitialLoading
    /\ dash.error = Null
    /\ navigate("history", userConfig)
    /\ UNCHANGED <<userConfig, eventHistory, runs, polls, analysisCall, routeMap>>

\* HistoryPage: "Back to Dashboard"; the page renders eventHistory.slice().reverse(),
\* a reversed copy
HistoryBack ==
    /\ page = "history"
    /\ navigate("dashboard", userConfig)
    /\ UNCHANGED <<userConfig, eventHistory, runs, polls, analysisCall, routeMap>>

\* DashboardPage without a configuration: "Go to Configuration"
GoToConfiguration ==
    /\ page = "dashboard"
    /\ userConfig = Null
    /\ navigate("onboarding", userConfig)
    /\ UNCHANGED <<userConfig, eventHistory, runs, polls, analysisCall, routeMap>>

\* a backend whose health check may fail and whose other calls have one
\* outcome each: the application's steps and their interleavings, without the
\* variety of the replies
LeanBackend ==
    [assess |-> {AssessThrows},
     initJitter |-> {0},
     riskData |-> {RiskData(TRUE, FALSE, 0)},
     agentInfo |-> {AgentInfo(TRUE, FALSE)},
     optimize |-> {OptReply(TRUE, FALSE, <<>>, FALSE, "")},
     runJitter |-> {0},
     ai |-> {"Reroute through Vietnam: lowest risk."},
     pollJitter |-> {0}]

AppNext ==
    \/ LandingGoToAuth
    \/ AuthSubmit
    \/ OnboardingSubmit
    \/ HeaderNavigate
    \/ ViewHistory
    \/ HistoryBack
    \/ GoToConfiguration
    \/ DashboardNext(LeanBackend)

\* the whole application, from its first render, against the lean backend
AppSpec == AppInit /\ [][AppNext]_vars

-----------------------------------------------------------------------------
(* The dashboard with its polling, until the user logs out *)

\* a backend for the poll ticks: the risk data arrive or the call fails, the
\* assessments succeed
PollBackend ==
    [assess |-> {AssessOk(Assessment(50, 40, 0, 0, 0, 30, 0))},
     initJitter |-> {0},
     riskData |-> {RiskData(TRUE, FALSE, 0), RiskData(FALSE, TRUE, 3)},
     agentInfo |-> {AgentInfo(TRUE, FALSE)},
     optimize |-> {OptReply(TRUE, FALSE, <<>>, FALSE, "")},
     runJitter |-> {0},
     ai |-> {"Reroute through Vietnam: lowest risk."},
     pollJitter |-> {0}]

\* Header: "Log Out"
LogOut ==
    /\ page \in {"dashboard", "history", "settings"}
    /\ navigate("landing", userConfig)
    /\ UNCHANGED <<userConfig, eventHistory, runs, polls, analysisCall, routeMap>>

PollSpecNext ==
    \/ DashboardNext(LeanBackend)
    \/ PollNext(PollBackend)
    \/ LogOut

PollSpec == Init /\ [][PollSpecNext]_vars

\* a backend whose risk data arrive while its assessments fail
OutageBackend ==
    [assess |-> {AssessThrows},
     initJitter |-> {0},
     riskData |-> {RiskData(FALSE, TRUE, 3)},
     agentInfo |-> {AgentInfo(TRUE, FALSE)},
     optimize |-> {OptReply(TRUE, FALSE, <<>>, FALSE, "")},
     runJitter |-> {0},
     ai |-> {"Reroute through Vietnam: lowest risk."},
     pollJitter |-> {0}]

OutageSpecNext ==
    \/ DashboardNext(LeanBackend)
    \/ PollNext(OutageBackend)
    \/ LogOut

\* the dashboard with its polling while the assessments of the ticks fail
OutageSpec == Init /\ [][OutageSpecNext]_vars

-----------------------------------------------------------------------------
(* What DashboardPage and Dashboard render *)

\* the early returns of DashboardPage
Screen ==
    IF page # "dashboard" THEN "none"
    ELSE IF userConfig = Null THEN "configure"
    ELSE IF dash.isInitialLoading THEN "loading"
    ELSE IF dash.error # Null THEN "error"
    ELSE "dashboard"

\* allRoutes.find(r => r.id === activeRouteId) || PRIMARY_ROUTE
activeRoute ==
    IF \E k \in 1..Len(allRoutes) : allRoutes[k].id = dash.activeRouteId
    THEN allRoutes[CHOOSE k \in 1..Len(allRoutes) : allRoutes[k].id = dash.activeRouteId]
    ELSE PRIMARY_ROUTE

\* Dashboard: primaryRisk - activeRisk, each riskProfile[id]?.overall || 0
riskReduction ==
    OverallOr(dash.riskProfile, PRIMARY_ROUTE.id, 0) - OverallOr(dash.riskProfile, activeRoute.id, 0)

\* the risk Dashboard displays for a route
DisplayedRisk(id) == OverallOr(dash.riskProfile, id, 0)

\* the disruption run of the mounted dashboard has finished
RunFinished == mount \in Mounts /\ Live(mount) /\ runs[mount].pc = "done"

RunInFlight == mount \in Mounts /\ Live(mount) /\ runs[mount].pc \notin {"idle", "done"}

-----------------------------------------------------------------------------
(* The claims *)

\* C1: when a disruption run has finished, the displayed overall risk of the
\* primary route is at least 0.75, whatever the backend calls did
C1_PrimaryRiskHighAtFinish ==
    RunFinished => DisplayedRisk(PRIMARY_ROUTE.id) >= 75

\* C2: when a disruption run has finished, no route has a lower displayed
\* overall risk than the active route
C2_ActiveRouteIsLowestRisk ==
    RunFinished =>
        \A id \in RouteIds : DisplayedRisk(dash.activeRouteId) <= DisplayedRisk(id)

\* C3: when a disruption run has finished, the active route is an alternative
\* route whose displayed overall risk is minimal among the four alternatives,
\* the first such one in list order; the primary route is never the choice
C3_ActiveRouteIsBestAlternative ==
    RunFinished =>
        \E a \in 1..Len(ALTERNATIVE_ROUTES) :
            /\ dash.activeRouteId = ALTERNATIVE_ROUTES[a].id
            /\ \A k \in 1..Len(ALTERNATIVE_ROUTES) :
                /\ DisplayedRisk(ALTERNATIVE_ROUTES[a].id) <= DisplayedRisk(ALTERNATIVE_ROUTES[k].id)
                /\ k < a => DisplayedRisk(ALTERNATIVE_ROUTES[a].id) < DisplayedRisk(ALTERNATIVE_ROUTES[k].id)

\* C4: after a disruption run that left a non-primary route active, the active
\* route's displayed overall risk is below the primary route's: the Risk
\* Reduction figure is positive
C4_RiskReductionPositive ==
    (RunFinished /\ dash.activeRouteId # PRIMARY_ROUTE.id) =>
        /\ DisplayedRisk(dash.activeRouteId) < DisplayedRisk(PRIMARY_ROUTE.id)
        /\ riskReduction > 0

\* C5: every disruption run whose calls settle terminates, and at its end
\* isLoading and isAiLoading are false and the active route is not the primary
C5_RunEndsRerouted ==
    /\ [](RunFinished => /\ ~dash.isLoading
                         /\ ~dash.isAiLoading
                         /\ dash.activeRouteId # PRIMARY_ROUTE.id)
    /\ (RunInFlight ~> RunFinished)

\* a finished run whose risk-data, optimizer and AI calls all failed
C5_FailedRunFinished ==
    /\ RunFinished
    /\ runs[mount].riskData.throws
    /\ runs[mount].aiQuery = "failed"
    /\ dash.riskProfile = OptimizerFallbackProfile(runs[mount].closure.riskProfile)
    /\ dash.aiAnalysis = ""
    /\ dash.activeRouteId # PRIMARY_ROUTE.id

\* the initial load of the mounted dashboard ended on a failed health check
LoadEndedOnHealthFailure ==
    /\ mount \in Mounts
    /\ Live(mount)
    /\ userConfig # Null
    /\ loads[mount].pc = "done"
    /\ ~dash.backendConnected

\* C6: when the initial load ended on a failed health check, the dashboard is
\* shown with an entry for each of the five routes and the disruption can be
\* triggered: there is no blocking error screen
C6_HealthFailureShowsDashboard ==
    LoadEndedOnHealthFailure =>
        /\ Screen = "dashboard"
        /\ RouteIds \subseteq DOMAIN dash.riskProfile
        /\ DisruptionButtonEnabled(mount) \/ dash.isDisruptionTriggered

\* C7: when the AI query of a disruption run failed, aiAnalysis is not empty
\* once the run has finished
C7_FallbackRecommendationShown ==
    (RunFinished /\ runs[mount].aiQuery = "failed") => dash.aiAnalysis # ""

\* C8: after a disruption run that rerouted, the shipment's currentRouteId is
\* the active route's id and its eta is 14 days plus that route's timeDeltaDays
C8_ShipmentFollowsReroute ==
    (RunFinished /\ dash.activeRouteId # PRIMARY_ROUTE.id) =>
        /\ dash.shipment.currentRouteId = dash.activeRouteId
        /\ dash.shipment.eta = InitialEta + activeRoute.timeDeltaDays

\* a score between 0 and 1, in hundredths
InUnitInterval(x) == 0 <= x /\ x <= 100

\* C9: in every state, every overall score and every factor score of the risk
\* profile lies between 0 and 1
C9_ScoresInUnitInterval ==
    \A id \in DOMAIN dash.riskProfile :
        /\ InUnitInterval(dash.riskProfile[id].overall)
        /\ InUnitInterval(dash.riskProfile[id].factors.congestion)
        /\ InUnitInterval(dash.riskProfile[id].factors.tariffs)
        /\ InUnitInterval(dash.riskProfile[id].factors.unrest)

\* C10: the event history only grows at its end: every step keeps the entries
\* it found, in their order and unchanged, whichever operations are in flight,
\* and the click on the disruption button adds exactly one entry
C10_HistoryAppendOnly ==
    [][/\ Len(eventHistory') >= Len(eventHistory)
       /\ SubSeq(eventHistory', 1, Len(eventHistory)) = eventHistory
       /\ (\E m \in Mounts : runs[m].pc = "idle" /\ runs'[m].pc = "health")
            => eventHistory' = Append(eventHistory, Ev("DISRUPTION DETECTED", "", 0))]_vars

\* the load of an unmounted dashboard and the load of the mounted one are both
\* in flight, and each has added its entry to the history
C10_TwoLoadsAppended ==
    /\ mount = 2
    /\ Live(2)
    /\ loads[1].pc \notin {"none", "health", "done"}
    /\ loads[2].pc \notin {"none", "health", "done"}
    /\ Cardinality({k \in 1..Len(eventHistory) :
                      eventHistory[k].message = "Connected to Arkham AI backend"}) = 2

\* the k-th poll tick of instance m starts in this step
TickStarts(m, k) == polls[m][k].pc = "idle" /\ polls'[m][k].pc # "idle"

\* C11: a poll tick starts only while its dashboard is mounted with a user
\* configuration and isDisruptionTriggered is true: never before the click on
\* the disruption button, never after the unmount
C11_TickStartsOnlyWhilePolling ==
    [][\A m \in Mounts, k \in Ticks :
          TickStarts(m, k) =>
              /\ Live(m)
              /\ userConfig # Null
              /\ dash.isDisruptionTriggered
              /\ runs[m].pc # "idle"]_vars

\* the dashboard was left after its first tick had started, and its second
\* tick has not started
C11_UnmountedAfterOneTick ==
    /\ page # "dashboard"
    /\ polls[1][1].pc # "idle"
    /\ polls[1][2].pc = "idle"

\* the operations of instance m in flight that end by writing the risk profile
WritersInFlight(m) ==
    (IF loads[m].pc \notin {"none", "done"} THEN 1 ELSE 0)
    + (IF runs[m].pc \notin {"idle", "done"} THEN 1 ELSE 0)
    + Cardinality({k \in Ticks : polls[m][k].pc \notin {"idle", "done"}})

\* C12: at most one operation that writes the risk profile is in flight at a
\* time: an initial load, a disruption run and a poll tick never overlap, nor
\* do two poll ticks
C12_OneWriterAtATime ==
    \A m \in Mounts : Live(m) => WritersInFlight(m) <= 1

\* s is an initial part of t
IsPrefix(s, t) == Len(s) <= Len(t) /\ s = SubSeq(t, 1, Len(s))

\* the requests of a disruption run, in the order of its awaits
RunRequestOrder ==
    << Req("health", ""), Req("riskData", ""), Req("assess", PRIMARY_ROUTE.id),
       Req("optimize", ""), Req("agentQuery", "") >>

\* the request a run is awaiting at pc
RunAwaits(pc) ==
    CASE pc = "health" -> Req("health", "")
      [] pc = "riskData" -> Req("riskData", "")
      [] pc = "primary" -> Req("assess", PRIMARY_ROUTE.id)
      [] pc = "optimize" -> Req("optimize", "")
      [] pc = "ai" -> Req("agentQuery", "")
      [] OTHER -> Req("", "")

\* C13: a disruption run sends its requests one at a time in the order health
\* check, risk data, primary assessment, optimization, agent query: a request
\* is sent only in the step in which the one before it settles, and the route
\* selection happens only in the step in which the last one settles
C13_RunRequestsInOrder ==
    [][\A m \in Mounts :
          /\ IsPrefix(runs'[m].issued, RunRequestOrder)
          /\ runs'[m].issued # runs[m].issued =>
                /\ runs'[m].pc # runs[m].pc
                /\ runs'[m].issued = SubSeq(RunRequestOrder, 1, Len(runs[m].issued) + 1)
                /\ runs'[m].issued[Len(runs'[m].issued)] = RunAwaits(runs'[m].pc)
          /\ (Live(m) /\ Live(m)' /\ dash'.activeRouteId # dash.activeRouteId) =>
                /\ runs[m].pc \in {"optimize", "import", "ai"}
                /\ runs'[m].pc = "done"]_vars

\* a finished run that sent all five requests
C13_AllFiveRequestsSent ==
    RunFinished /\ runs[mount].issued = RunRequestOrder

\* no request occurs twice in s
NoRepeat(s) == \A i, j \in 1..Len(s) : s[i] = s[j] => i = j

\* C14: no request is sent again: an initial load, a disruption run and a
\* poll tick each send every endpoint at most once, the assessment at most
\* once for each route, whether the requests succeed or fail
C14_NoRequestRepeated ==
    \A m \in Mounts :
        /\ NoRepeat(loads[m].issued)
        /\ NoRepeat(runs[m].issued)
        /\ \A k \in Ticks : NoRepeat(polls[m][k].issued)

\* a load whose assessments all failed, a run and a poll tick have ended, each
\* having sent all of its requests
C14_AllOperationsEnded ==
    /\ loads[1].pc = "done" /\ Len(loads[1].issued) = 8
    /\ loads[1].updatedRiskProfile[PRIMARY_ROUTE.id] = PrimaryFallbackEntry
    /\ runs[1].pc = "done" /\ Len(runs[1].issued) = 5
    /\ \E k \in Ticks : polls[1][k].pc = "done" /\ Len(polls[1][k].issued) = 6

\* the notification on screen is the one of a reroute
RerouteNotified ==
    dash.notification # Null /\ dash.notification[1].message = "Rerouting complete"

\* C15: the "Rerouting complete ... Risk reduced from X% to Y%" notification
\* of a finished run carries the displayed overall risk of the primary route
\* as X and that of the active route as Y, and X is greater than Y
C15_NotificationReportsReduction ==
    (RunFinished /\ RerouteNotified) =>
        /\ dash.notification[1].from = DisplayedRisk(PRIMARY_ROUTE.id)
        /\ dash.notification[1].to = DisplayedRisk(dash.activeRouteId)
        /\ dash.notification[1].from > dash.notification[1].to

\* C16: once the initial load has ended without an error, and after a
\* disruption run, the displayed overall risks of the four alternative routes
\* are pairwise different
C16_AlternativeRisksDiffer ==
    Screen = "dashboard" =>
        \A i, j \in 1..Len(ALTERNATIVE_ROUTES) :
            i # j => DisplayedRisk(ALTERNATIVE_ROUTES[i].id) # DisplayedRisk(ALTERNATIVE_ROUTES[j].id)

\* no operation of instance m that is in flight is taken back by this step
NothingCancelled(m) ==
    /\ loads[m].pc \notin {"none", "done"} => loads'[m].pc # "none"
    /\ runs[m].pc \notin {"idle", "done"} => runs'[m].pc # "idle"
    /\ \A k \in Ticks : polls[m][k].pc \notin {"idle", "done"} => polls'[m][k].pc # "idle"

\* C17: once the polling interval is set it stays the same interval for as
\* long as the dashboard is mounted: only the unmount clears it, and no step
\* cancels an operation in flight
C17_IntervalClearedOnUnmountOnly ==
    [][\A m \in Mounts :
          /\ (Live(m) /\ Live(m)' /\ dash.pollInterval # 0) =>
                dash'.pollInterval = dash.pollInterval
          /\ NothingCancelled(m)]_vars

\* the initial load of the mounted dashboard is in flight
LoadInFlight ==
    mount \in Mounts /\ Live(mount) /\ loads[mount].pc \notin {"none", "done"}

\* the initial load of the mounted dashboard has finished
LoadFinished == mount \in Mounts /\ Live(mount) /\ loads[mount].pc = "done"

\* C18: when the initial load has finished, by whichever path, the risk profile
\* has an entry for each of the five routes and isInitialLoading is false; and
\* when every backend call settles, every initial load finishes
C18_LoadEndsWithFiveEntries ==
    /\ [](LoadFinished => /\ RouteIds \subseteq DOMAIN dash.riskProfile
                          /\ ~dash.isInitialLoading)
    /\ (LoadInFlight ~> LoadFinished)

\* a finished load whose primary assessment failed and whose first alternative
\* was assessed
C18_LoadFinishedAfterFailures ==
    /\ LoadFinished
    /\ dash.backendConnected
    /\ ~dash.isDisruptionTriggered
    /\ dash.riskProfile[PRIMARY_ROUTE.id] = PrimaryFallbackEntry
    /\ dash.riskProfile[ALTERNATIVE_ROUTES[1].id] # AltFallbackEntry(0)

\* instance m's health check rejects in this step: the load ends at the await
\* of getApiHealth
HealthCheckFails(m) == loads[m].pc = "health" /\ loads'[m].pc = "done"

\* C19: a load whose health check failed has issued the health request only,
\* and it leaves backendConnected false, the error message set, every one of
\* the five routes at overall 0.1 with factors 0.1/0.1/0.1, isInitialLoading
\* false and the event 'Backend unavailable, using mock data' in the history
C19_HealthFailureUsesMockData ==
    /\ [](LoadEndedOnHealthFailure =>
            /\ loads[mount].issued = <<Req("health", "")>>
            /\ dash.error # Null
            /\ dash.riskProfile = [id \in RouteIds |-> Entry(10, 10, 10, 10)]
            /\ ~dash.isInitialLoading
            /\ \E i \in 1..Len(eventHistory) :
                  eventHistory[i].message = "Backend unavailable, using mock data")
    /\ [][\A m \in Mounts :
            HealthCheckFails(m) =>
                /\ loads'[m].issued = loads[m].issued
                /\ Live(m) => ~dash'.backendConnected /\ dash'.error # Null
                /\ Len(eventHistory') > Len(eventHistory)
                /\ eventHistory'[Len(eventHistory) + 1].message =
                        "Backend unavailable, using mock data"]_vars

\* the second instance of the dashboard ended its load on a failed health
\* check, in a session whose history already held events
C19_SecondLoadFailedHealth ==
    /\ mount = 2
    /\ LoadEndedOnHealthFailure
    /\ dash.riskProfile = MockProfile
    /\ Len(eventHistory) > 1

-----------------------------------------------------------------------------
(* getPerplexityAnalysis called once, under every key, agent reply and     *)
(* direct reply                                                            *)

AnalysisInit ==
    /\ page = "landing"
    /\ userConfig = Null
    /\ eventHistory = <<>>
    /\ mount = 0
    /\ dash = DashInit
    /\ loads = [m \in Mounts |-> LoadIdle]
    /\ runs = [m \in Mounts |-> RunIdle]
    /\ polls = [m \in Mounts |-> [k \in Ticks |-> TickIdle]]
    /\ \E key \in ApiKeys, a \in AgentReplies, d \in DirectReplies :
          analysisCall = [pc |-> "agent", key |-> key, agent |-> a, direct |-> d,
                      issued |-> <<Req("agentQuery", "")>>, result |-> Rejected]
    /\ routeMap = RouteMapIdle

AnalysisNext == AgentSettles \/ DirectSettles

AnalysisSpec == AnalysisInit /\ [][AnalysisNext]_vars

\* C20: a settled getPerplexityAnalysis has returned the agent's text when the
\* agent reply had success and a non-empty response, and only then; in every
\* other case it has called the direct Perplexity API when a key is
\* configured, settling as that call settles, and has otherwise returned the
\* canned sentence; without a key it has not rejected
C20_AgentTextOrFallback ==
    analysisCall.pc = "done" =>
        /\ AgentAnswered(analysisCall.agent) =>
              /\ analysisCall.result = Resolved(analysisCall.agent.response)
              /\ analysisCall.issued = <<Req("agentQuery", "")>>
        /\ (~AgentAnswered(analysisCall.agent) /\ analysisCall.key # "") =>
              /\ analysisCall.issued = <<Req("agentQuery", ""), Req("perplexity", "")>>
              /\ analysisCall.result = getDirectPerplexityAnalysis(analysisCall.key, analysisCall.direct)
        /\ (~AgentAnswered(analysisCall.agent) /\ analysisCall.key = "") =>
              /\ analysisCall.issued = <<Req("agentQuery", "")>>
              /\ analysisCall.result = Resolved(CannedAnalysis)
        /\ analysisCall.key = "" => ~analysisCall.result.rejects

\* without a key, a successful agent reply with an empty response ended in the
\* canned sentence
C20_EmptyReplyGotCannedSentence ==
    /\ analysisCall.pc = "done"
    /\ analysisCall.key = ""
    /\ ~analysisCall.agent.throws
    /\ analysisCall.agent.success
    /\ analysisCall.agent.response = ""
    /\ analysisCall.result = Resolved(CannedAnalysis)

\* instance m's optimizer call settles in this step and the run takes one of
\* its two fallbacks (the else branch or the catch)
OptimizerFallsBack(m) == runs[m].pc = "optimize" /\ runs'[m].optimizer = "fallback"

-----------------------------------------------------------------------------
(* getPortCoordinates called MaxLookups times, the calls overlapping or not *)

RouteMapInit ==
    /\ page = "landing"
    /\ userConfig = Null
    /\ eventHistory = <<>>
    /\ mount = 0
    /\ dash = DashInit
    /\ loads = [m \in Mounts |-> LoadIdle]
    /\ runs = [m \in Mounts |-> RunIdle]
    /\ polls = [m \in Mounts |-> [k \in Ticks |-> TickIdle]]
    /\ analysisCall = AnalysisIdle
    /\ \E key \in MapsApiKeys : routeMap = [RouteMapIdle EXCEPT !.API_KEY = key]

RouteMapNext ==
    \E k \in Lookups :
        \/ \E portName \in PortNames : getPortCoordinates(k, portName)
        \/ geocodePortSettles(k)

RouteMapSpec == RouteMapInit /\ [][RouteMapNext]_vars

\* lookup k is called in this step
LookupStarts(k) == routeMap.lookups[k].pc = "idle" /\ routeMap'.lookups[k].pc # "idle"

\* lookup k's geocoding settles in this step
LookupSettles(k) == routeMap.lookups[k].pc = "geocode" /\ routeMap'.lookups[k].pc = "done"

\* C22: a lookup of a name the coordinate table holds, from the start or since
\* a geocoding stored it, makes no request and returns the table's entry, and
\* an entry never changes; a geocoding that succeeds stores what it returns; a
\* geocoding that fails returns (0,0) and stores nothing; and a lookup of a
\* name the table does not hold makes a geocoding request, or returns (0,0)
\* at once when no API key is configured
C22_CoordinateLookupIsCache ==
    [][\A k \in Lookups :
         LET table == routeMap.PORT_COORDINATES
             name == routeMap'.lookups[k].portName
             after == routeMap'.lookups[k]
         IN /\ \A n \in DOMAIN table :
                  n \in DOMAIN routeMap'.PORT_COORDINATES
                     /\ routeMap'.PORT_COORDINATES[n] = table[n]
            /\ (LookupStarts(k) /\ name \in DOMAIN table) =>
                  /\ after.pc = "done"
                  /\ after.issued = <<>>
                  /\ after.result = table[name]
            /\ (LookupStarts(k) /\ name \notin DOMAIN table /\ routeMap.API_KEY # "") =>
                  /\ after.pc = "geocode"
                  /\ after.issued = <<Req("geocode", name)>>
            /\ (LookupStarts(k) /\ name \notin DOMAIN table /\ routeMap.API_KEY = "") =>
                  /\ after.pc = "done"
                  /\ after.issued = <<>>
                  /\ after.result = DefaultCoordinates
                  /\ routeMap'.PORT_COORDINATES = table
            /\ (LookupSettles(k) /\ after.coords # Null) =>
                  /\ after.result = after.coords[1]
                  /\ name \in DOMAIN routeMap'.PORT_COORDINATES
                  /\ routeMap'.PORT_COORDINATES[name] = after.coords[1]
            /\ (LookupSettles(k) /\ after.coords = Null) =>
                  /\ after.result = DefaultCoordinates
                  /\ routeMap'.PORT_COORDINATES = table]_vars

\* one name looked up three times: the geocoding failed, the next lookup's
\* geocoding succeeded, and the third returned the stored location unasked
C22_FailedThenStoredThenCached ==
    LET l == routeMap.lookups
    IN /\ \A k \in 1..3 : l[k].pc = "done" /\ l[k].portName = "Port of Kaohsiung, Taiwan"
       /\ l[1].issued # <<>> /\ l[1].result = DefaultCoordinates
       /\ l[2].issued # <<>> /\ l[2].result = GeocodedLocation("Port of Kaohsiung, Taiwan")
       /\ l[3].issued = <<>> /\ l[3].result = l[2].result

\* a disruption run of instance m starts in this step
RunStarts(m) == runs'[m] # runs[m] /\ runs'[m].pc = "health"

\* C23: a disruption run starts only on a mounted instance that has started
\* none before and whose isLoading and isDisruptionTriggered are false, and
\* isDisruptionTriggered is true from the start of the run on: between a mount
\* and its unmount at most one run starts
C23_OneRunPerMount ==
    /\ [][\A m \in Mounts :
            RunStarts(m) => /\ runs[m].pc = "idle"
                            /\ Live(m)
                            /\ ~dash.isLoading
                            /\ ~dash.isDisruptionTriggered]_vars
    /\ [](\A m \in Mounts : (Live(m) /\ runs[m].pc # "idle") => dash.isDisruptionTriggered)

\* two instances of the dashboard have each started their run, and the run of
\* the mounted one has ended
C23_BothMountsRan ==
    /\ mount = 2
    /\ Live(2)
    /\ runs[1].pc # "idle"
    /\ runs[2].pc = "done"
    /\ ~dash.isLoading

\* the mounted dashboard instance has sent no request and has no operation
\* in flight or ended
NothingRequested(m) ==
    /\ loads[m].pc = "none" /\ loads[m].issued = <<>>
    /\ runs[m].pc = "idle" /\ runs[m].issued = <<>>
    /\ \A k \in Ticks : polls[m][k].pc = "idle" /\ polls[m][k].issued = <<>>

\* C24: while the configuration is null, the mounted dashboard has issued no
\* request, has no polling interval, shows the prompt to configure and offers
\* no disruption button; and a disruption run starts only when the
\* configuration is set, the initial load has finished and no error is set
C24_NothingWithoutConfiguration ==
    /\ []((page = "dashboard" /\ userConfig = Null) =>
             /\ NothingRequested(mount)
             /\ dash.pollInterval = 0
             /\ Screen = "configure"
             /\ ~DisruptionButtonEnabled(mount))
    /\ [][\A m \in Mounts :
            RunStarts(m) => /\ userConfig # Null
                            /\ loads[m].pc = "done"
                            /\ ~dash.isInitialLoading
                            /\ dash.error = Null]_vars

\* the dashboard is mounted a second time without a configuration
C24_SecondMountUnconfigured ==
    /\ page = "dashboard"
    /\ userConfig = Null
    /\ mount = 2
    /\ Screen = "configure"

\* a field value with a character that is not white space
NonBlank(v) == v \notin {"", "  "}

\* a configuration whose three fields are non-blank
ValidConfig(cfg) ==
    /\ cfg # Null
    /\ NonBlank(cfg[1].product)
    /\ NonBlank(cfg[1].origin)
    /\ NonBlank(cfg[1].destination)

\* C25: the configuration is null or has product, origin and destination
\* non-blank; it is set only by an onboarding submit, which goes to the
\* dashboard, and reset to null only by a sign-up submit, which goes to
\* onboarding; the onboarding page is left only with a valid configuration
C25_ConfigNullOrComplete ==
    /\ [](userConfig = Null \/ ValidConfig(userConfig))
    /\ [][/\ (userConfig' # userConfig /\ userConfig' # Null) =>
                (page = "onboarding" /\ page' = "dashboard")
          /\ (userConfig' # userConfig /\ userConfig' = Null) =>
                (page = "auth" /\ page' = "onboarding")
          /\ (page = "onboarding" /\ page' # "onboarding") =>
                (page' = "dashboard" /\ ValidConfig(userConfig'))]_vars

\* a sign-up submit has cleared a configuration under which the dashboard had
\* been mounted
C25_ConfigClearedBySignUp ==
    /\ page = "onboarding"
    /\ userConfig = Null
    /\ mount = 1
    /\ Len(eventHistory) > 0

\* this step mounts the dashboard: the page shown becomes the dashboard
DashboardMounts == page # "dashboard" /\ page' = "dashboard"

\* C26: a step that shows the dashboard again mounts a new instance in its
\* initial state (active route the primary, isDisruptionTriggered false, empty
\* risk profile, and under a configuration a fresh initial load in flight);
\* no later step of an earlier instance reroutes the new one; a step that
\* changes the page leaves the event history unchanged, and leaves the
\* configuration unchanged unless it is a form submit of the onboarding or
\* sign-up page: logging out clears neither
C26_NavigationResetsDashboardOnly ==
    /\ [][/\ DashboardMounts =>
                /\ mount' = mount + 1
                /\ dash'.activeRouteId = PRIMARY_ROUTE.id
                /\ ~dash'.isDisruptionTriggered
                /\ dash'.riskProfile = EmptyProfile
                /\ runs'[mount'].pc = "idle"
                /\ userConfig' # Null =>
                      (dash'.isInitialLoading /\ loads'[mount'].pc = "health")
          /\ page' # page => eventHistory' = eventHistory
          /\ (page' # page /\ page \in {"dashboard", "history", "settings", "landing"}) =>
                userConfig' = userConfig
          /\ (page = "auth" /\ page' = "dashboard") => userConfig' = userConfig]_vars
    /\ []((page = "dashboard" /\ dash.activeRouteId # PRIMARY_ROUTE.id) =>
             runs[mount].pc = "done")

\* the first instance rerouted, and the second instance, mounted under the
\* same configuration and history, shows the primary route
C26_RerouteLostOnReturn ==
    /\ mount = 2
    /\ Live(2)
    /\ userConfig # Null
    /\ runs[1].pc = "done"
    /\ \E i \in 1..Len(eventHistory) : eventHistory[i].message = "Route updated"
    /\ dash.activeRouteId = PRIMARY_ROUTE.id
    /\ ~dash.isDisruptionTriggered

\* how many 'Shipment ... created' events the history holds
RECURSIVE ShipmentCreatedCount(_)
ShipmentCreatedCount(h) ==
    IF h = <<>> THEN 0
    ELSE (IF Head(h).message = "Shipment created" THEN 1 ELSE 0) + ShipmentCreatedCount(Tail(h))

\* C27: the event history of a session holds the 'Shipment ... created' event
\* at most once, whatever the navigations
C27_ShipmentCreatedOnce == ShipmentCreatedCount(eventHistory) <= 1

\* tick k of instance m publishes its profile in this step
TickWrites(m, k) == Live(m) /\ polls[m][k].pc = "assess" /\ polls'[m][k].pc = "done"

\* C28: the write of a poll tick changes the entries of the routes the tick
\* re-assessed with success and no other: every other entry of the risk
\* profile is after the write what it was just before it
C28_TickWritesAssessedRoutesOnly ==
    [][\A m \in Mounts, k \in Ticks :
          TickWrites(m, k) =>
              \A id \in DOMAIN dash.riskProfile \ polls'[m][k].assessed :
                  /\ id \in DOMAIN dash'.riskProfile
                  /\ dash'.riskProfile[id] = dash.riskProfile[id]]_vars

\* C29: activeRouteId is the id of one of the five predefined routes, and
\* while an instance of the dashboard stays mounted it changes only from the
\* primary route to an alternative, hence at most once; ids that only the
\* optimizer names may be keys of the risk profile and are never active
C29_ActiveRouteIsPredefined ==
    /\ [](dash.activeRouteId \in RouteIds)
    /\ [][\A m \in Mounts :
            (Live(m) /\ Live(m)' /\ dash'.activeRouteId # dash.activeRouteId) =>
                /\ dash.activeRouteId = PRIMARY_ROUTE.id
                /\ dash'.activeRouteId \in AltIds]_vars

\* a run has rerouted to an alternative while the risk profile holds an entry
\* under an id the optimizer named and no predefined route has
C29_ReroutedWithForeignKeys ==
    /\ RunFinished
    /\ dash.activeRouteId \in AltIds
    /\ "BACKEND-7" \in DOMAIN dash.riskProfile
    /\ DOMAIN dash.riskProfile \ RouteIds # {"BACKEND-7"}

====
